---- MODULE Spec2Model ----
(***************************************************************************)
(* A model of the Homie controller's entity model (homie-controller        *)
(* types.rs): the scalar parsers (State, Datatype, Extension), the         *)
(* Device / Node / Property tree with its completeness predicates, and the *)
(* reconciliation step that applies one (topic, payload) update to it.     *)
(*                                                                         *)
(* Strings are sequences of one-character strings, so that splitting,      *)
(* prefix/suffix stripping and joining are computed character by           *)
(* character.  Option<T> and Result<T, E> are tagged records.  A HashMap   *)
(* is a function whose domain is the set of keys present.                  *)
(*                                                                         *)
(* The last part models the translation of D-Bus messages into Bluetooth   *)
(* events (mijia bluetooth/events.rs) and the match rule that selects the  *)
(* messages to translate.                                                  *)
(***************************************************************************)
EXTENDS Integers, Sequences, FiniteSets, TLC

VARIABLES devices, updates, last, input, parsed, message, matched, events

\* The variables of the Bluetooth event translation.
bluetooth == <<message, matched, events>>

vars == <<devices, updates, last, input, parsed, bluetooth>>

----------------------------------------------------------------------------
(* Bounds.                                                                 *)

\* Longest string handed to the scalar parsers in SpecParse.
MaxLen == 6

\* Most updates applied in one behaviour of Spec.
MaxUpdates == 3

----------------------------------------------------------------------------
(* Option and Result.                                                      *)

None == [tag |-> "None"]

Some(v) == [tag |-> "Some", val |-> v]

is_some(o) == o.tag = "Some"

Ok(v) == [tag |-> "Ok", val |-> v]

Err(kind, s) == [tag |-> "Err", err |-> kind, val |-> s]

is_ok(r) == r.tag = "Ok"

----------------------------------------------------------------------------
(* str operations used by the parsers.                                     *)

\* s.split(c): the maximal pieces of s between occurrences of c; never empty
\* (splitting "" gives one empty piece).
RECURSIVE split(_, _)
split(s, c) ==
    IF \E i \in 1..Len(s) : s[i] = c
    THEN LET i == CHOOSE k \in 1..Len(s) :
                      s[k] = c /\ \A j \in 1..(k - 1) : s[j] # c
         IN  <<SubSeq(s, 1, i - 1)>> \o split(SubSeq(s, i + 1, Len(s)), c)
    ELSE <<s>>

\* s.strip_prefix(c) for a one-character pattern c.
strip_prefix(s, c) ==
    IF Len(s) >= 1 /\ s[1] = c THEN Some(Tail(s)) ELSE None

\* s.strip_suffix(c) for a one-character pattern c.
strip_suffix(s, c) ==
    IF Len(s) >= 1 /\ s[Len(s)] = c THEN Some(SubSeq(s, 1, Len(s) - 1)) ELSE None

\* parts.join(c)
RECURSIVE join(_, _)
join(parts, c) ==
    IF Len(parts) = 0 THEN <<>>
    ELSE IF Len(parts) = 1 THEN parts[1]
    ELSE parts[1] \o <<c>> \o join(Tail(parts), c)

----------------------------------------------------------------------------
(* The literal tokens of the State and Datatype parsers.                   *)

S_unknown      == <<"u","n","k","n","o","w","n">>
S_init         == <<"i","n","i","t">>
S_ready        == <<"r","e","a","d","y">>
S_disconnected == <<"d","i","s","c","o","n","n","e","c","t","e","d">>
S_sleeping     == <<"s","l","e","e","p","i","n","g">>
S_lost         == <<"l","o","s","t">>
S_alert        == <<"a","l","e","r","t">>

S_integer == <<"i","n","t","e","g","e","r">>
S_float   == <<"f","l","o","a","t">>
S_boolean == <<"b","o","o","l","e","a","n">>
S_string  == <<"s","t","r","i","n","g">>
S_enum    == <<"e","n","u","m">>
S_color   == <<"c","o","l","o","r">>

\* enum State
State == {"Unknown", "Init", "Ready", "Disconnected", "Sleeping", "Lost", "Alert"}

\* enum Datatype
Datatype == {"Integer", "Float", "Boolean", "String", "Enum", "Color"}

\* State::as_str
as_str(st) ==
    CASE st = "Unknown"      -> S_unknown
      [] st = "Init"         -> S_init
      [] st = "Ready"        -> S_ready
      [] st = "Disconnected" -> S_disconnected
      [] st = "Sleeping"     -> S_sleeping
      [] st = "Lost"         -> S_lost
      [] st = "Alert"        -> S_alert

\* A State parser that also accepts the placeholder's own name.
StateFromStrUnknown(s) ==
    CASE s = S_init         -> Ok("Init")
      [] s = S_ready        -> Ok("Ready")
      [] s = S_disconnected -> Ok("Disconnected")
      [] s = S_sleeping     -> Ok("Sleeping")
      [] s = S_lost         -> Ok("Lost")
      [] s = S_alert        -> Ok("Alert")
      [] s = S_unknown      -> Ok("Unknown")
      [] OTHER              -> Err("ParseStateError", s)

\* <State as FromStr>::from_str
StateFromStr(s) ==
    CASE s = S_init         -> Ok("Init")
      [] s = S_ready        -> Ok("Ready")
      [] s = S_disconnected -> Ok("Disconnected")
      [] s = S_sleeping     -> Ok("Sleeping")
      [] s = S_lost         -> Ok("Lost")
      [] s = S_alert        -> Ok("Alert")
      [] OTHER              -> Err("ParseStateError", s)

\* A Datatype parser that falls back to String instead of failing.
DatatypeFromStrLenient(s) ==
    CASE s = S_integer -> Ok("Integer")
      [] s = S_float   -> Ok("Float")
      [] s = S_boolean -> Ok("Boolean")
      [] s = S_string  -> Ok("String")
      [] s = S_enum    -> Ok("Enum")
      [] s = S_color   -> Ok("Color")
      [] OTHER         -> Ok("String")

\* <Datatype as FromStr>::from_str
DatatypeFromStr(s) ==
    CASE s = S_integer -> Ok("Integer")
      [] s = S_float   -> Ok("Float")
      [] s = S_boolean -> Ok("Boolean")
      [] s = S_string  -> Ok("String")
      [] s = S_enum    -> Ok("Enum")
      [] s = S_color   -> Ok("Color")
      [] OTHER         -> Err("ParseDatatypeError", s)

\* struct Extension
Extension(id, version, homie_versions) ==
    [id |-> id, version |-> version, homie_versions |-> homie_versions]

\* An Extension parser that drops empty segments of the version list.
ExtensionFromStrNoEmpty(s) ==
    LET parts == split(s, ":") IN
    IF Len(parts) = 3
    THEN LET p1 == strip_prefix(parts[3], "[") IN
         IF is_some(p1)
         THEN LET p2 == strip_suffix(p1.val, "]") IN
              IF is_some(p2)
              THEN Ok(Extension(parts[1], parts[2],
                                SelectSeq(split(p2.val, ";"), LAMBDA v : v # <<>>)))
              ELSE Err("ParseExtensionError", s)
         ELSE Err("ParseExtensionError", s)
    ELSE Err("ParseExtensionError", s)

\* An Extension parser that takes the brackets for granted.
ExtensionFromStrNoBrackets(s) ==
    LET parts == split(s, ":") IN
    IF Len(parts) = 3
    THEN Ok(Extension(parts[1], parts[2],
                      split(SubSeq(parts[3], 2, Len(parts[3]) - 1), ";")))
    ELSE Err("ParseExtensionError", s)

\* <Extension as FromStr>::from_str
ExtensionFromStr(s) ==
    LET parts == split(s, ":") IN
    IF Len(parts) = 3
    THEN LET p1 == strip_prefix(parts[3], "[") IN
         IF is_some(p1)
         THEN LET p2 == strip_suffix(p1.val, "]") IN
              IF is_some(p2)
              THEN Ok(Extension(parts[1], parts[2], split(p2.val, ";")))
              ELSE Err("ParseExtensionError", s)
         ELSE Err("ParseExtensionError", s)
    ELSE Err("ParseExtensionError", s)

----------------------------------------------------------------------------
(* The entity model: Property, Node, Device.                               *)

\* Property::new
PropertyNew(id) ==
    [id       |-> id,
     name     |-> None,
     datatype |-> None,
     settable |-> FALSE,
     retained |-> TRUE,
     unit     |-> None,
     format   |-> None,
     value    |-> None]

\* A completeness test that also asks for a value.
PropertyHasRequiredAttributesAndValue(p) ==
    is_some(p.name) /\ is_some(p.datatype) /\ is_some(p.value)

\* Property::has_required_attributes
PropertyHasRequiredAttributes(p) ==
    is_some(p.name) /\ is_some(p.datatype)

\* Node::new
NodeNew(id) ==
    [id         |-> id,
     name       |-> None,
     node_type  |-> None,
     properties |-> <<>>]

\* A completeness test that lets a node without properties pass.
NodeHasRequiredAttributesEmptyOk(n) ==
    /\ is_some(n.name)
    /\ is_some(n.node_type)
    /\ \A k \in DOMAIN n.properties :
           PropertyHasRequiredAttributes(n.properties[k])

\* Node::has_required_attributes
NodeHasRequiredAttributes(n) ==
    /\ is_some(n.name)
    /\ is_some(n.node_type)
    /\ ~(DOMAIN n.properties = {})
    /\ \A k \in DOMAIN n.properties :
           PropertyHasRequiredAttributes(n.properties[k])

\* Device::new
DeviceNew(id, homie_version) ==
    [id               |-> id,
     homie_version    |-> homie_version,
     name             |-> None,
     state            |-> "Unknown",
     implementation   |-> None,
     nodes            |-> <<>>,
     extensions       |-> <<>>,
     local_ip         |-> None,
     mac              |-> None,
     firmware_name    |-> None,
     firmware_version |-> None,
     stats_interval   |-> None,
     stats_uptime     |-> None,
     stats_signal     |-> None,
     stats_cputemp    |-> None,
     stats_cpuload    |-> None,
     stats_battery    |-> None,
     stats_freeheap   |-> None,
     stats_supply     |-> None]

\* A completeness test that does not look at the nodes.
DeviceHasRequiredAttributesNoNodes(d) ==
    /\ is_some(d.name)
    /\ d.state # "Unknown"

\* A completeness test satisfied by one complete node among several.
DeviceHasRequiredAttributesAnyNode(d) ==
    /\ is_some(d.name)
    /\ d.state # "Unknown"
    /\ \/ DOMAIN d.nodes = {}
       \/ \E k \in DOMAIN d.nodes : NodeHasRequiredAttributes(d.nodes[k])

\* Device::has_required_attributes
DeviceHasRequiredAttributes(d) ==
    /\ is_some(d.name)
    /\ d.state # "Unknown"
    /\ \A k \in DOMAIN d.nodes : NodeHasRequiredAttributes(d.nodes[k])

----------------------------------------------------------------------------
(* Scalar parsers of the attributes whose type is not an enumeration:      *)
(* booleans, integers, floating point numbers and durations in seconds.    *)

S_true  == <<"t","r","u","e">>
S_false == <<"f","a","l","s","e">>

DigitChars == <<"0","1","2","3","4","5","6","7","8","9">>

IsDigit(c) == \E i \in 1..10 : DigitChars[i] = c

DigitVal(c) == (CHOOSE i \in 1..10 : DigitChars[i] = c) - 1

AllDigits(s) == \A i \in 1..Len(s) : IsDigit(s[i])

RECURSIVE DigitsValue(_)
DigitsValue(s) ==
    IF Len(s) = 0 THEN 0
    ELSE 10 * DigitsValue(SubSeq(s, 1, Len(s) - 1)) + DigitVal(s[Len(s)])

\* bool: exactly "true" or "false".
ParseBool(s) ==
    CASE s = S_true  -> Ok(TRUE)
      [] s = S_false -> Ok(FALSE)
      [] OTHER       -> Err("InvalidScalar", s)

\* Unsigned 64-bit integer: an optional '+', then one or more digits.  The
\* payloads of the model have a few digits only, far below the 64-bit range.
ParseU64(s) ==
    LET body == IF Len(s) >= 1 /\ s[1] = "+" THEN Tail(s) ELSE s IN
    IF Len(body) >= 1 /\ AllDigits(body)
    THEN Ok(DigitsValue(body))
    ELSE Err("InvalidScalar", s)

\* Signed 64-bit integer: an optional sign, then one or more digits.
ParseI64(s) ==
    LET signed == Len(s) >= 1 /\ s[1] \in {"+", "-"}
        neg    == Len(s) >= 1 /\ s[1] = "-"
        body   == IF signed THEN Tail(s) ELSE s
        v      == IF neg THEN 0 - DigitsValue(body) ELSE DigitsValue(body)
    IN
    IF Len(body) >= 1 /\ AllDigits(body)
    THEN Ok(v)
    ELSE Err("InvalidScalar", s)

\* The digits of a fraction without its trailing zeros.
RECURSIVE TrimZeros(_)
TrimZeros(s) ==
    IF Len(s) >= 1 /\ s[Len(s)] = "0" THEN TrimZeros(SubSeq(s, 1, Len(s) - 1)) ELSE s

\* Floating point, decimal notation: an optional sign, digits, and an optional
\* '.' followed by digits, with at least one digit in all.  The value is kept
\* exactly, as num / 10^scale.
ParseF64(s) ==
    LET signed == Len(s) >= 1 /\ s[1] \in {"+", "-"}
        neg    == Len(s) >= 1 /\ s[1] = "-"
        body   == IF signed THEN Tail(s) ELSE s
        parts  == split(body, ".")
        whole  == parts[1]
        frac   == IF Len(parts) = 2 THEN TrimZeros(parts[2]) ELSE <<>>
        mag    == DigitsValue(whole \o frac)
    IN
    IF /\ Len(parts) <= 2
       /\ AllDigits(whole)
       /\ (Len(parts) = 2 => AllDigits(parts[2]))
       /\ Len(whole) + (IF Len(parts) = 2 THEN Len(parts[2]) ELSE 0) >= 1
    THEN Ok([num |-> IF neg THEN 0 - mag ELSE mag, scale |-> Len(frac)])
    ELSE Err("InvalidScalar", s)

\* The list of extensions of $extensions: comma-joined, each parsed on its own;
\* one malformed extension fails the attribute.
RECURSIVE ParseExtensionList(_)
ParseExtensionList(parts) ==
    IF Len(parts) = 0 THEN Ok(<<>>)
    ELSE LET first == ExtensionFromStr(parts[1])
             rest  == ParseExtensionList(Tail(parts))
         IN  IF ~is_ok(first) THEN first
             ELSE IF ~is_ok(rest) THEN rest
             ELSE Ok(<<first.val>> \o rest.val)

ParseExtensions(s) == ParseExtensionList(split(s, ","))

\* The payload of an attribute of the given scalar type, parsed.
ParsePayload(type, s) ==
    CASE type = "string"     -> Ok(s)
      [] type = "state"      -> StateFromStr(s)
      [] type = "datatype"   -> DatatypeFromStr(s)
      [] type = "extensions" -> ParseExtensions(s)
      [] type = "bool"       -> ParseBool(s)
      [] type = "duration"   -> ParseU64(s)
      [] type = "u64"        -> ParseU64(s)
      [] type = "i64"        -> ParseI64(s)
      [] type = "f64"        -> ParseF64(s)

----------------------------------------------------------------------------
(* The topic router.  A topic is the sequence of its '/'-separated         *)
(* segments below the base topic; the first segment is the device ID.      *)

DeviceIds   == {"kitchen", "porch"}
NodeIds     == {"light", "fan"}
PropertyIds == {"power", "speed"}

\* The segments that are well-formed IDs.
ValidIds == DeviceIds \cup NodeIds \cup PropertyIds

Attr(field, type, opt) == [field |-> field, type |-> type, opt |-> opt]

\* type "none": a recognised attribute that has no field in the entity model.
NoField == Attr("", "none", FALSE)

DeviceAttrs ==
    {<<"$homie">>, <<"$name">>, <<"$state">>, <<"$implementation">>,
     <<"$extensions">>, <<"$nodes">>, <<"$localip">>, <<"$mac">>,
     <<"$fw", "name">>, <<"$fw", "version">>,
     <<"$stats", "interval">>, <<"$stats", "uptime">>, <<"$stats", "signal">>,
     <<"$stats", "cputemp">>, <<"$stats", "cpuload">>, <<"$stats", "battery">>,
     <<"$stats", "freeheap">>, <<"$stats", "supply">>}

DeviceAttr(suffix) ==
    CASE suffix = <<"$homie">>              -> Attr("homie_version", "string", FALSE)
      [] suffix = <<"$name">>               -> Attr("name", "string", TRUE)
      [] suffix = <<"$state">>              -> Attr("state", "state", FALSE)
      [] suffix = <<"$implementation">>     -> Attr("implementation", "string", TRUE)
      [] suffix = <<"$extensions">>         -> Attr("extensions", "extensions", FALSE)
      [] suffix = <<"$nodes">>              -> NoField
      [] suffix = <<"$localip">>            -> Attr("local_ip", "string", TRUE)
      [] suffix = <<"$mac">>                -> Attr("mac", "string", TRUE)
      [] suffix = <<"$fw", "name">>         -> Attr("firmware_name", "string", TRUE)
      [] suffix = <<"$fw", "version">>      -> Attr("firmware_version", "string", TRUE)
      [] suffix = <<"$stats", "interval">>  -> Attr("stats_interval", "duration", TRUE)
      [] suffix = <<"$stats", "uptime">>    -> Attr("stats_uptime", "duration", TRUE)
      [] suffix = <<"$stats", "signal">>    -> Attr("stats_signal", "i64", TRUE)
      [] suffix = <<"$stats", "cputemp">>   -> Attr("stats_cputemp", "f64", TRUE)
      [] suffix = <<"$stats", "cpuload">>   -> Attr("stats_cpuload", "i64", TRUE)
      [] suffix = <<"$stats", "battery">>   -> Attr("stats_battery", "i64", TRUE)
      [] suffix = <<"$stats", "freeheap">>  -> Attr("stats_freeheap", "u64", TRUE)
      [] suffix = <<"$stats", "supply">>    -> Attr("stats_supply", "f64", TRUE)

NodeAttrs == {"$name", "$type", "$properties"}

NodeAttr(a) ==
    CASE a = "$name"       -> Attr("name", "string", TRUE)
      [] a = "$type"       -> Attr("node_type", "string", TRUE)
      [] a = "$properties" -> NoField

PropertyAttrs == {"$name", "$datatype", "$settable", "$retained", "$unit", "$format"}

PropertyAttr(a) ==
    CASE a = "$name"     -> Attr("name", "string", TRUE)
      [] a = "$datatype" -> Attr("datatype", "datatype", TRUE)
      [] a = "$settable" -> Attr("settable", "bool", FALSE)
      [] a = "$retained" -> Attr("retained", "bool", FALSE)
      [] a = "$unit"     -> Attr("unit", "string", TRUE)
      [] a = "$format"   -> Attr("format", "string", TRUE)

Target(level, device, node, property, attr) ==
    [level |-> level, device |-> device, node |-> node, property |-> property,
     attr |-> attr]

Ignored == Target("ignored", "", "", "", NoField)

\* The entity and attribute a topic addresses; Ignored for a topic of no known
\* shape or with a malformed ID.
Route(topic) ==
    IF Len(topic) < 2 \/ topic[1] \notin ValidIds THEN Ignored
    ELSE LET d == topic[1]
             suffix == Tail(topic)
         IN
         CASE suffix \in DeviceAttrs ->
                  Target("device", d, "", "", DeviceAttr(suffix))
           [] Len(suffix) = 2 /\ suffix[1] \in ValidIds /\ suffix[2] \in NodeAttrs ->
                  Target("node", d, suffix[1], "", NodeAttr(suffix[2]))
           [] Len(suffix) = 3 /\ suffix[1] \in ValidIds /\ suffix[2] \in ValidIds
                 /\ suffix[3] \in PropertyAttrs ->
                  Target("property", d, suffix[1], suffix[2], PropertyAttr(suffix[3]))
           [] Len(suffix) = 2 /\ suffix[1] \in ValidIds /\ suffix[2] \in ValidIds ->
                  Target("property", d, suffix[1], suffix[2],
                         Attr("value", "string", TRUE))
           [] OTHER -> Ignored

----------------------------------------------------------------------------
(* The reconciliation step: one (topic, payload) update applied to the     *)
(* map of devices.                                                         *)

\* map.insert(k, v)
Insert(map, k, v) == (k :> v) @@ map

\* An assignment that starts again from a fresh property.
AssignFresh(entity, attr, payload) ==
    IF attr.type = "none" THEN entity
    ELSE LET r == ParsePayload(attr.type, payload) IN
         IF ~is_ok(r) THEN entity
         ELSE IF "retained" \in DOMAIN entity
              THEN [PropertyNew(entity.id) EXCEPT
                        ![attr.field] = IF attr.opt THEN Some(r.val) ELSE r.val]
              ELSE [entity EXCEPT
                        ![attr.field] = IF attr.opt THEN Some(r.val) ELSE r.val]

\* An assignment that appends to a list attribute instead of replacing it.
AssignAppend(entity, attr, payload) ==
    IF attr.type = "none" THEN entity
    ELSE LET r == ParsePayload(attr.type, payload) IN
         IF ~is_ok(r) THEN entity
         ELSE IF attr.type = "extensions"
              THEN [entity EXCEPT ![attr.field] = @ \o r.val]
              ELSE [entity EXCEPT
                        ![attr.field] = IF attr.opt THEN Some(r.val) ELSE r.val]

\* An assignment that keeps a property's value only once its datatype is known.
AssignValueNeedsDatatype(entity, attr, payload) ==
    IF attr.type = "none" THEN entity
    ELSE LET r == ParsePayload(attr.type, payload) IN
         IF ~is_ok(r) THEN entity
         ELSE IF attr.field = "value" /\ entity.datatype = None THEN entity
         ELSE [entity EXCEPT
                   ![attr.field] = IF attr.opt THEN Some(r.val) ELSE r.val]

\* Steps 3 and 4: parse the payload for the attribute and assign the value to
\* its field; a payload that does not parse leaves the entity as it is.
Assign(entity, attr, payload) ==
    IF attr.type = "none" THEN entity
    ELSE LET r == ParsePayload(attr.type, payload) IN
         IF ~is_ok(r) THEN entity
         ELSE [entity EXCEPT
                   ![attr.field] = IF attr.opt THEN Some(r.val) ELSE r.val]

\* Step 2: look up or create.
EnsureDevice(map, d) ==
    IF d \in DOMAIN map THEN map ELSE Insert(map, d, DeviceNew(d, <<>>))

EnsureNode(dev, n) ==
    IF n \in DOMAIN dev.nodes THEN dev
    ELSE [dev EXCEPT !.nodes = Insert(@, n, NodeNew(n))]

EnsureProperty(node, p) ==
    IF p \in DOMAIN node.properties THEN node
    ELSE [node EXCEPT !.properties = Insert(@, p, PropertyNew(p))]

\* The map of devices after one update.
ApplyUpdate(map, topic, payload) ==
    LET t == Route(topic) IN
    IF t.level = "ignored" THEN map
    ELSE LET m1  == EnsureDevice(map, t.device)
             dev == m1[t.device]
         IN
         CASE t.level = "device" ->
                  [m1 EXCEPT ![t.device] = Assign(dev, t.attr, payload)]
           [] t.level = "node" ->
                  LET dev1 == EnsureNode(dev, t.node) IN
                  [m1 EXCEPT ![t.device] =
                      [dev1 EXCEPT !.nodes[t.node] = Assign(@, t.attr, payload)]]
           [] t.level = "property" ->
                  LET dev1  == EnsureNode(dev, t.node)
                      node1 == EnsureProperty(dev1.nodes[t.node], t.property)
                  IN
                  [m1 EXCEPT ![t.device] =
                      [dev1 EXCEPT !.nodes[t.node] =
                          [node1 EXCEPT !.properties[t.property] =
                              Assign(@, t.attr, payload)]]]

----------------------------------------------------------------------------
(* The updates the model's transport delivers.                             *)

S_notareal == <<"n","o","t","a","r","e","a","l"," ","t","y","p","e">>

\* The payloads tried on an attribute of each scalar type: well-formed ones
\* and at least one the parser rejects.
PayloadsFor(type) ==
    CASE type = "string"     -> {<<"K">>}
      [] type = "state"      -> {S_ready, S_lost, S_unknown}
      [] type = "datatype"   -> {S_boolean, S_integer, S_notareal}
      [] type = "extensions" -> {<<"a",":","0",":","[","]">>,
                                 <<"a",":","0",":","[","4",";","5","]",",",
                                   "b",":","1",":","[","4","]">>,
                                 <<"a",":","0">>}
      [] type = "bool"       -> {S_true, S_false, <<"y","e","s">>}
      [] type = "duration"   -> {<<"6","0">>, <<"-","1">>}
      [] type = "u64"        -> {<<"6","0">>, <<"-","1">>}
      [] type = "i64"        -> {<<"-","3">>, <<"x">>}
      [] type = "f64"        -> {<<"1",".","5">>, <<"x">>}
      [] type = "none"       -> {<<"K">>}

TopicsOf(dIds, nIds, pIds) ==
    {<<d>> \o a : d \in dIds, a \in DeviceAttrs}
    \cup {<<d, n, a>> : d \in dIds, n \in nIds, a \in NodeAttrs}
    \cup {<<d, n, q, a>> : d \in dIds, n \in nIds, q \in pIds, a \in PropertyAttrs}
    \cup {<<d, n, q>> : d \in dIds, n \in nIds, q \in pIds}

\* Topics the router does not recognise.
StrayTopics == {<<"kitchen", "$bogus">>, <<"Bad_Id", "$name">>}

\* Topics of a second device, a second node and a second property.
BystanderTopics ==
    {<<"porch", "$name">>, <<"kitchen", "fan", "$name">>,
     <<"kitchen", "light", "speed", "$name">>}

UpdatesOn(topics) ==
    UNION {{[topic |-> t, payload |-> q] : q \in PayloadsFor(Route(t).attr.type)} :
           t \in topics}

\* A second value for a device's name and for a property's value.
SecondValues ==
    {[topic |-> <<"kitchen", "$name">>, payload |-> <<"L">>],
     [topic |-> <<"kitchen", "light", "power">>, payload |-> <<"L">>]}

\* Every attribute of the namespace on one device, node and property, the
\* bystanders' names, and the stray topics.
AllUpdates ==
    UpdatesOn(TopicsOf({"kitchen"}, {"light"}, {"power"})
              \cup BystanderTopics \cup StrayTopics)
    \cup SecondValues

\* The attributes the completeness predicates read, on one device with a node
\* of two properties and a node of one.
DiscoveryTopics ==
    {t \in TopicsOf({"kitchen"}, NodeIds, PropertyIds) :
        /\ Route(t).attr.field \in {"name", "state", "node_type", "datatype"}
        /\ (Len(t) >= 3 /\ t[2] = "fan" => t[3] # "power")}

DiscoveryUpdates ==
    {u \in UpdatesOn(DiscoveryTopics) : u.payload \notin {S_lost, S_integer}}

\* The strings handed to the parsers on their own: every string over the
\* punctuation of the extension grammar up to MaxLen characters, the tokens of
\* both enumerations, and near misses of them.
ParseAlphabet == {"a", "0", ":", "[", "]", ";"}

ParseInputs ==
    UNION {[1..n -> ParseAlphabet] : n \in 0..MaxLen}
    \cup {as_str(st) : st \in State}
    \cup {S_integer, S_float, S_boolean, S_string, S_enum, S_color}
    \cup {<<"I","n","i","t">>, <<"R","E","A","D","Y">>, <<"r","e","a","d","y"," ">>,
          <<"l","o","s">>, <<"B","o","o","l","e","a","n">>, S_notareal}

----------------------------------------------------------------------------
(* Specifications.                                                         *)

\* Whether the entity a topic addresses is in the map.
Existed(map, topic) ==
    LET t == Route(topic) IN
    /\ t.level # "ignored"
    /\ t.device \in DOMAIN map
    /\ t.level \in {"node", "property"} => t.node \in DOMAIN map[t.device].nodes
    /\ t.level = "property" =>
           t.property \in DOMAIN map[t.device].nodes[t.node].properties

\* Whether the device a topic addresses is in the map and complete.
WasComplete(map, topic) ==
    LET t == Route(topic) IN
    /\ t.level # "ignored"
    /\ t.device \in DOMAIN map
    /\ DeviceHasRequiredAttributes(map[t.device])

\* What is remembered of the update applied last: the update, whether its
\* target existed before it, and whether its device was complete before it.
Delivered(map, u) ==
    [topic        |-> u.topic,
     payload      |-> u.payload,
     existed      |-> Existed(map, u.topic),
     was_complete |-> WasComplete(map, u.topic)]

\* No D-Bus message has arrived.
BluetoothIdle ==
    /\ message = None
    /\ matched = None
    /\ events = None

\* The controller starts with no device known; nothing has been parsed.
Init ==
    /\ devices = <<>>
    /\ updates = 0
    /\ last = None
    /\ input = <<>>
    /\ parsed = None
    /\ BluetoothIdle

\* apply_update: one update delivered by the transport, on any topic.
Update ==
    /\ updates < MaxUpdates
    /\ \E u \in AllUpdates :
          /\ devices' = ApplyUpdate(devices, u.topic, u.payload)
          /\ last' = Some(Delivered(devices, u))
    /\ updates' = updates + 1
    /\ UNCHANGED <<input, parsed, bluetooth>>

Next == Update

Spec == Init /\ [][Next]_vars

\* apply_update while one device announces itself: its name, state, nodes and
\* properties, in any order and any number of times.
Discover ==
    /\ \E u \in DiscoveryUpdates :
          /\ devices' = ApplyUpdate(devices, u.topic, u.payload)
          /\ last' = Some(Delivered(devices, u))
    /\ UNCHANGED <<updates, input, parsed, bluetooth>>

NextDiscovery == Discover

SpecDiscovery == Init /\ [][NextDiscovery]_vars

\* The parsers on their own: any input string, then one of the three parsers.
InitParse ==
    /\ devices = <<>>
    /\ updates = 0
    /\ last = None
    /\ input \in ParseInputs
    /\ parsed = None
    /\ BluetoothIdle

ParseState ==
    /\ parsed' = [parser |-> "State", result |-> StateFromStr(input)]
    /\ UNCHANGED <<devices, updates, last, input, bluetooth>>

ParseDatatype ==
    /\ parsed' = [parser |-> "Datatype", result |-> DatatypeFromStr(input)]
    /\ UNCHANGED <<devices, updates, last, input, bluetooth>>

ParseExtension ==
    /\ parsed' = [parser |-> "Extension", result |-> ExtensionFromStr(input)]
    /\ UNCHANGED <<devices, updates, last, input, bluetooth>>

NextParse == ParseState \/ ParseDatatype \/ ParseExtension

SpecParse == InitParse /\ [][NextParse]_vars

----------------------------------------------------------------------------
(* The parsers on their own (SpecParse).                                   *)

\* The parser named p has run on the input.
Parsed(p) == parsed # None /\ parsed.parser = p

Colons(s) == {k \in 1..Len(s) : s[k] = ":"}

\* s reads id:version:[interior], the two colons at positions i and j, with no
\* other colon anywhere.
ExtensionFormAt(s, i, j) ==
    /\ Colons(s) = {i, j}
    /\ i < j
    /\ j + 2 <= Len(s)
    /\ s[j + 1] = "["
    /\ s[Len(s)] = "]"

ExtensionForm(s) == \E i, j \in 1..Len(s) : ExtensionFormAt(s, i, j)

\* C5: the State parser accepts exactly the six tokens init, ready,
\* disconnected, sleeping, lost and alert, each giving the variant it names,
\* and rejects every other string, "unknown" and other capitalisations
\* included, with a ParseStateError that carries the string.
C5_StateParseExact ==
    Parsed("State") =>
        IF \E st \in State \ {"Unknown"} : input = as_str(st)
        THEN \E st \in State \ {"Unknown"} :
                 input = as_str(st) /\ parsed.result = Ok(st)
        ELSE parsed.result = Err("ParseStateError", input)

C5_Witness ==
    /\ Parsed("State")
    /\ input = S_unknown
    /\ parsed.result = Err("ParseStateError", S_unknown)

\* C6: a string id:version:[v1;...;vn] whose id, version and bracket interior
\* hold no ':' parses to that id and version, and its homie_versions joined
\* with ';' give back the interior; the list is never empty, and "a:0:[]"
\* gives the list of one empty string.
C6_ExtensionRoundTrip ==
    Parsed("Extension") =>
        \A i, j \in 1..Len(input) :
            ExtensionFormAt(input, i, j) =>
                /\ is_ok(parsed.result)
                /\ parsed.result.val.id = SubSeq(input, 1, i - 1)
                /\ parsed.result.val.version = SubSeq(input, i + 1, j - 1)
                /\ join(parsed.result.val.homie_versions, ";")
                       = SubSeq(input, j + 2, Len(input) - 1)
                /\ Len(parsed.result.val.homie_versions) >= 1
                /\ (input = <<"a", ":", "0", ":", "[", "]">> =>
                        parsed.result.val.homie_versions = << <<>> >>)

C6_Witness ==
    /\ Parsed("Extension")
    /\ input = <<"a", ":", "0", ":", "[", "]">>
    /\ parsed.result = Ok(Extension(<<"a">>, <<"0">>, << <<>> >>))

\* C7: a string that does not split on ':' into exactly three parts, or whose
\* third part does not start with '[' and end with a ']' of its own, is
\* answered with a ParseExtensionError holding the string unchanged.
C7_ExtensionRejects ==
    Parsed("Extension") /\ ~ExtensionForm(input) =>
        parsed.result = Err("ParseExtensionError", input)

C7_Witness ==
    /\ Parsed("Extension")
    /\ input = <<"a", ":", "0", ":", "[">>
    /\ parsed.result = Err("ParseExtensionError", input)

----------------------------------------------------------------------------
(* The completeness predicates (SpecDiscovery, Spec).                      *)

\* C1: a device is complete exactly when its name is set, its state is one of
\* the six named states, and no node of its map is incomplete; so a device
\* without nodes is complete as soon as name and state are set.
C1_DeviceComplete ==
    \A d \in DOMAIN devices :
        LET dev == devices[d] IN
        /\ DeviceHasRequiredAttributes(dev) <=>
               /\ dev.name # None
               /\ dev.state \in State \ {"Unknown"}
               /\ ~\E n \in DOMAIN dev.nodes :
                      ~NodeHasRequiredAttributes(dev.nodes[n])
        /\ (DOMAIN dev.nodes = {} /\ dev.name # None /\ dev.state # "Unknown")
               => DeviceHasRequiredAttributes(dev)

C1_Witness ==
    /\ "kitchen" \in DOMAIN devices
    /\ DOMAIN devices["kitchen"].nodes = {}
    /\ devices["kitchen"].name = Some(<<"K">>)
    /\ devices["kitchen"].state = "Ready"
    /\ DeviceHasRequiredAttributes(devices["kitchen"])

\* C2: a node is complete exactly when its name and type are set, it has at
\* least one property, and no property of its map is incomplete; a node
\* without properties is never complete.
C2_NodeComplete ==
    \A d \in DOMAIN devices : \A n \in DOMAIN devices[d].nodes :
        LET node == devices[d].nodes[n] IN
        /\ NodeHasRequiredAttributes(node) <=>
               /\ node.name # None
               /\ node.node_type # None
               /\ Cardinality(DOMAIN node.properties) >= 1
               /\ ~\E q \in DOMAIN node.properties :
                      ~PropertyHasRequiredAttributes(node.properties[q])
        /\ DOMAIN node.properties = {} => ~NodeHasRequiredAttributes(node)

C2_Witness ==
    /\ "kitchen" \in DOMAIN devices
    /\ "light" \in DOMAIN devices["kitchen"].nodes
    /\ LET node == devices["kitchen"].nodes["light"] IN
       /\ node.name # None
       /\ node.node_type # None
       /\ DOMAIN node.properties = {}
       /\ ~NodeHasRequiredAttributes(node)

\* The values an optional string attribute takes in the model.
OptionalStrings == {None, Some(<<"K">>)}

\* C3: a property is complete exactly when its name and datatype are set;
\* whatever settable, retained, unit, format and value are changed to, the
\* answer stays the same.
C3_PropertyComplete ==
    \A d \in DOMAIN devices : \A n \in DOMAIN devices[d].nodes :
        \A q \in DOMAIN devices[d].nodes[n].properties :
            LET prop == devices[d].nodes[n].properties[q] IN
            /\ PropertyHasRequiredAttributes(prop) <=>
                   (prop.name # None /\ prop.datatype # None)
            /\ \A s, r \in BOOLEAN : \A u, f, v \in OptionalStrings :
                   PropertyHasRequiredAttributes(
                       [prop EXCEPT !.settable = s, !.retained = r, !.unit = u,
                                    !.format = f, !.value = v])
                   = PropertyHasRequiredAttributes(prop)

C3_Witness ==
    /\ "kitchen" \in DOMAIN devices
    /\ "light" \in DOMAIN devices["kitchen"].nodes
    /\ "power" \in DOMAIN devices["kitchen"].nodes["light"].properties
    /\ LET prop == devices["kitchen"].nodes["light"].properties["power"] IN
       /\ prop.name # None
       /\ prop.datatype # None
       /\ prop.value = None
       /\ prop.unit # None
       /\ PropertyHasRequiredAttributes(prop)

IsComplete(map, d) == d \in DOMAIN map /\ DeviceHasRequiredAttributes(map[d])

\* C4: over the updates of one device, a device just created is incomplete;
\* a device becomes complete only in a state where its name is set, its state
\* is not Unknown and every node it has is complete; and a step that adds an
\* incomplete node to a complete device leaves it incomplete.
C4_Step(d) ==
    /\ ~DeviceHasRequiredAttributes(DeviceNew(d, <<>>))
    /\ (d \notin DOMAIN devices /\ d \in DOMAIN devices') => ~IsComplete(devices', d)
    /\ (~IsComplete(devices, d) /\ IsComplete(devices', d)) =>
           /\ devices'[d].name # None
           /\ devices'[d].state # "Unknown"
           /\ \A n \in DOMAIN devices'[d].nodes :
                  NodeHasRequiredAttributes(devices'[d].nodes[n])
    /\ (/\ IsComplete(devices, d)
        /\ \E n \in DOMAIN devices'[d].nodes \ DOMAIN devices[d].nodes :
               ~NodeHasRequiredAttributes(devices'[d].nodes[n])) =>
           ~IsComplete(devices', d)

C4_CompletenessOverUpdates == [][\A d \in DeviceIds : C4_Step(d)]_vars

C4_Witness ==
    /\ last # None
    /\ last.val.topic = <<"kitchen", "fan", "$name">>
    /\ ~last.val.existed
    /\ last.val.was_complete
    /\ "light" \in DOMAIN devices["kitchen"].nodes
    /\ NodeHasRequiredAttributes(devices["kitchen"].nodes["light"])
    /\ ~DeviceHasRequiredAttributes(devices["kitchen"])

----------------------------------------------------------------------------
(* The effect of one update (Spec).                                        *)

DatatypeTokens == {S_integer, S_float, S_boolean, S_string, S_enum, S_color}

\* u is a $datatype update of a property, with a payload that is no token.
MalformedDatatype(u) ==
    /\ Route(u.topic).level = "property"
    /\ u.topic[Len(u.topic)] = "$datatype"
    /\ u.payload \notin DatatypeTokens

PropertyAt(map, t) == map[t.device].nodes[t.node].properties[t.property]

\* C8: a $datatype update with a payload that is none of the six tokens, on a
\* property that exists, changes nothing: the datatype set before stays, the
\* property stays, and so does everything else; a well-formed $datatype
\* update that follows it on the same property is applied.
C8_Step ==
    /\ (/\ updates' = updates + 1
        /\ MalformedDatatype(last'.val)
        /\ last'.val.existed) =>
           /\ devices' = devices
           /\ Existed(devices', last'.val.topic)
    /\ (/\ updates' = updates + 1
        /\ last # None
        /\ MalformedDatatype(last.val)
        /\ last'.val.topic = last.val.topic) =>
           /\ last'.val.payload = S_boolean =>
                  PropertyAt(devices', Route(last'.val.topic)).datatype
                      = Some("Boolean")
           /\ last'.val.payload = S_integer =>
                  PropertyAt(devices', Route(last'.val.topic)).datatype
                      = Some("Integer")

C8_MalformedDatatypeIgnored == [][C8_Step]_vars

C8_Witness ==
    /\ last # None
    /\ last.val.topic = <<"kitchen", "light", "power", "$datatype">>
    /\ last.val.payload = S_notareal
    /\ last.val.existed
    /\ Existed(devices, last.val.topic)
    /\ devices["kitchen"].nodes["light"].properties["power"].datatype
           = Some("Boolean")

\* Records a and b differ in field f at most.
SameExcept(a, b, f) ==
    /\ DOMAIN a = DOMAIN b
    /\ \A g \in DOMAIN a \ {f} : a[g] = b[g]

\* Maps a and b differ at key k at most, which b has.
SameExceptKey(a, b, k) ==
    /\ DOMAIN b = DOMAIN a \cup {k}
    /\ \A j \in DOMAIN a \ {k} : b[j] = a[j]

\* The entry of key k, or the fresh entity when the map has none.
EntryOr(map, k, fresh) == IF k \in DOMAIN map THEN map[k] ELSE fresh

\* The maps old and new differ in nothing but the one field that update u
\* addresses; an entity the update created has its initial fields otherwise.
OneFieldChanged(old, new, u) ==
    LET t == Route(u.topic) IN
    IF t.level = "ignored" THEN new = old
    ELSE
      /\ SameExceptKey(old, new, t.device)
      /\ LET dev  == EntryOr(old, t.device, DeviceNew(t.device, <<>>))
             dev2 == new[t.device]
         IN
         IF t.level = "device" THEN SameExcept(dev, dev2, t.attr.field)
         ELSE
           /\ SameExcept(dev, dev2, "nodes")
           /\ SameExceptKey(dev.nodes, dev2.nodes, t.node)
           /\ LET node  == EntryOr(dev.nodes, t.node, NodeNew(t.node))
                  node2 == dev2.nodes[t.node]
              IN
              IF t.level = "node" THEN SameExcept(node, node2, t.attr.field)
              ELSE
                /\ SameExcept(node, node2, "properties")
                /\ SameExceptKey(node.properties, node2.properties, t.property)
                /\ SameExcept(EntryOr(node.properties, t.property,
                                      PropertyNew(t.property)),
                              node2.properties[t.property], t.attr.field)

\* C9: one update changes the one field it addresses and nothing else: the
\* other fields of the entity, and every other device, node and property,
\* are as before.
\* The entity a routed target names.
TargetOf(map, t) ==
    CASE t.level = "device"   -> map[t.device]
      [] t.level = "node"     -> map[t.device].nodes[t.node]
      [] t.level = "property" -> PropertyAt(map, t)

\* The field update u addresses holds the value its payload parses to.
ParsedValueAssigned(new, u) ==
    LET t == Route(u.topic) IN
    (t.level # "ignored" /\ t.attr.type # "none") =>
        LET r == ParsePayload(t.attr.type, u.payload) IN
        is_ok(r) =>
            TargetOf(new, t)[t.attr.field] =
                IF t.attr.opt THEN Some(r.val) ELSE r.val

C9_Step ==
    updates' = updates + 1 =>
        /\ OneFieldChanged(devices, devices', last'.val)
        /\ ParsedValueAssigned(devices', last'.val)

C9_OneFieldOnly == [][C9_Step]_vars

C9_Witness ==
    /\ last # None
    /\ last.val.topic = <<"kitchen", "light", "power", "$datatype">>
    /\ last.val.payload = S_boolean
    /\ last.val.existed
    /\ Existed(devices, last.val.topic)
    /\ devices["kitchen"].nodes["light"].properties["power"].datatype
           = Some("Boolean")
    /\ devices["kitchen"].nodes["light"].properties["power"].name # None
    /\ "speed" \in DOMAIN devices["kitchen"].nodes["light"].properties

\* C10: the update applied last, applied once more, leaves the model as it is.
C10_Idempotent ==
    last # None =>
        ApplyUpdate(devices, last.val.topic, last.val.payload) = devices

C10_Witness ==
    /\ last # None
    /\ last.val.topic = <<"kitchen", "$extensions">>
    /\ is_ok(ParseExtensions(last.val.payload))
    /\ "kitchen" \in DOMAIN devices
    /\ Len(devices["kitchen"].extensions) = 2

----------------------------------------------------------------------------
(* Order of updates and the device lifecycle (Spec).                       *)

\* The properties the two orders are compared on: one the model may hold and
\* one of a node it never holds.
OrderedProperties ==
    {<<"kitchen", "light", "power">>, <<"kitchen", "fan", "speed">>}

\* The map after update (t1, p1) and then update (t2, p2).
ApplyBoth(map, t1, p1, t2, p2) == ApplyUpdate(ApplyUpdate(map, t1, p1), t2, p2)

\* C11: from any state of the model, the $datatype update and the value update
\* of one property give the same property whichever comes first, also when
\* the property (or its node) does not exist before them.
C11_DatatypeValueCommute ==
    \A vt \in OrderedProperties :
        \A dp \in {S_integer, S_notareal} : \A vp \in {<<"L">>} :
            LET dt == vt \o <<"$datatype">>
                t  == Route(vt)
            IN  PropertyAt(ApplyBoth(devices, dt, dp, vt, vp), t)
                    = PropertyAt(ApplyBoth(devices, vt, vp, dt, dp), t)

C11_Witness ==
    /\ last # None
    /\ last.val.topic = <<"kitchen", "light", "power", "$datatype">>
    /\ last.val.payload = S_boolean
    /\ last.val.existed
    /\ Existed(devices, last.val.topic)
    /\ devices["kitchen"].nodes["light"].properties["power"].value = Some(<<"K">>)
    /\ devices["kitchen"].nodes["light"].properties["power"].datatype
           = Some("Boolean")
    /\ devices["kitchen"].nodes["light"].properties["power"].name = None

\* u is a $state update of a device.
StateUpdate(u) == Len(u.topic) = 2 /\ u.topic[2] = "$state"

\* C15: a device is created with state Unknown; a $state update with a payload
\* that is none of the six tokens leaves the state as it was; and a state that
\* has left Unknown never is Unknown again.
C15_Step ==
    /\ \A d \in DeviceIds : DeviceNew(d, <<>>).state = "Unknown"
    /\ \A d \in DOMAIN devices' \ DOMAIN devices :
           ~StateUpdate(last'.val) => devices'[d].state = "Unknown"
    /\ \A d \in DOMAIN devices :
           /\ devices[d].state # "Unknown" => devices'[d].state # "Unknown"
           /\ (/\ updates' = updates + 1
               /\ StateUpdate(last'.val)
               /\ \A st \in State \ {"Unknown"} : last'.val.payload # as_str(st))
                  => devices'[d].state = devices[d].state

C15_StateNeverBackToUnknown == [][C15_Step]_vars

C15_Witness ==
    /\ last # None
    /\ last.val.topic = <<"kitchen", "$state">>
    /\ last.val.payload = S_unknown
    /\ last.val.existed
    /\ "kitchen" \in DOMAIN devices
    /\ devices["kitchen"].state = "Ready"

----------------------------------------------------------------------------
(* D-Bus messages and the Bluetooth events read from them.                 *)

\* Most properties in the changed_properties of one message.
MaxProps == 2

PROPERTIES_INTERFACE     == "org.freedesktop.DBus.Properties"
OBJECT_MANAGER_INTERFACE == "org.freedesktop.DBus.ObjectManager"

\* The signal a SignalArgs type stands for: PropertiesPropertiesChanged or
\* ObjectManagerInterfacesAdded.
SignalInterface(kind) ==
    CASE kind = "PropertiesChanged" -> PROPERTIES_INTERFACE
      [] kind = "InterfacesAdded"   -> OBJECT_MANAGER_INTERFACE

SignalName(kind) == kind

\* A D-Bus value with its type, as a Variant holds it: the value is the
\* field named after the type.
Variant(type, val) == [f \in {"type", type} |-> IF f = "type" THEN type ELSE val]

\* A D-Bus message: its header fields and its body.
Message(msg_type, sender, path, interface, member, body) ==
    [msg_type |-> msg_type, sender |-> sender, path |-> path,
     interface |-> interface, member |-> member, body |-> body]

PropertiesPropertiesChanged(interface_name, changed_properties) ==
    [kind |-> "PropertiesChanged", interface_name |-> interface_name,
     changed_properties |-> changed_properties, invalidated_properties |-> <<>>]

ObjectManagerInterfacesAdded(object, interfaces) ==
    [kind |-> "InterfacesAdded", object |-> object, interfaces |-> interfaces]

\* SignalArgs::match_rule(sender, path) of the signal kind.
SignalMatchRule(kind, sender, path) ==
    [msg_type |-> Some("signal"), sender |-> sender, path |-> path,
     interface |-> Some(SignalInterface(kind)), member |-> Some(SignalName(kind))]

\* BluetoothEvent::match_rule
match_rule == SignalMatchRule("PropertiesChanged", Some("org.bluez"), None)

\* MatchRule::matches: every field the rule sets equals the message's.
Matches(rule, msg) ==
    /\ is_some(rule.msg_type)  => msg.msg_type = rule.msg_type.val
    /\ is_some(rule.sender)    => msg.sender = rule.sender.val
    /\ is_some(rule.path)      => msg.path = rule.path.val
    /\ is_some(rule.interface) => msg.interface = rule.interface.val
    /\ is_some(rule.member)    => msg.member = rule.member.val

\* SignalArgs::from_message: the body of a signal of the kind, None for any
\* other message or a body of another shape.
from_message(kind, msg) ==
    IF /\ msg.msg_type = "signal"
       /\ msg.interface = SignalInterface(kind)
       /\ msg.member = SignalName(kind)
       /\ msg.body.kind = kind
    THEN Some(msg.body)
    ELSE None

\* prop_cast::<T>(map, key): the value under key when it is there and a T.
prop_cast(map, key, type) ==
    IF key \in DOMAIN map /\ map[key].type = type
    THEN Some(map[key][type])
    ELSE None

AdapterId(object_path) == [object_path |-> object_path]

DeviceId(object_path) == [object_path |-> object_path]

CharacteristicId(object_path) == [object_path |-> object_path]

\* enum BluetoothEvent
BluetoothEvent(kind, id, event) == [kind |-> kind, id |-> id, event |-> event]

\* enum AdapterEvent, DeviceEvent, CharacteristicEvent
Powered(powered)         == [kind |-> "Powered", powered |-> powered]
Discovering(discovering) == [kind |-> "Discovering", discovering |-> discovering]
Discovered               == [kind |-> "Discovered"]
Connected(connected)     == [kind |-> "Connected", connected |-> connected]
RSSI(rssi)               == [kind |-> "RSSI", rssi |-> rssi]
Value(value)             == [kind |-> "Value", value |-> value]

\* The events of one property: one if prop_cast finds it, none otherwise.
EventIf(cast, kind, id, event) ==
    IF is_some(cast) THEN <<BluetoothEvent(kind, id, event)>> ELSE <<>>

\* The arm "org.bluez.Adapter1" of properties_changed_to_events.
AdapterEvents(object_path, changed_properties) ==
    LET id          == AdapterId(object_path)
        powered     == prop_cast(changed_properties, "Powered", "bool")
        discovering == prop_cast(changed_properties, "Discovering", "bool")
    IN  EventIf(powered, "Adapter", id, Powered(powered.val))
        \o EventIf(discovering, "Adapter", id, Discovering(discovering.val))

\* The Device1 arm with the RSSI pushed before the connection state.
DeviceEventsRssiFirst(object_path, changed_properties) ==
    LET id        == DeviceId(object_path)
        connected == prop_cast(changed_properties, "Connected", "bool")
        rssi      == prop_cast(changed_properties, "RSSI", "i16")
    IN  EventIf(rssi, "Device", id, RSSI(rssi.val))
        \o EventIf(connected, "Device", id, Connected(connected.val))

\* The arm "org.bluez.Device1" of properties_changed_to_events.
DeviceEvents(object_path, changed_properties) ==
    LET id        == DeviceId(object_path)
        connected == prop_cast(changed_properties, "Connected", "bool")
        rssi      == prop_cast(changed_properties, "RSSI", "i16")
    IN  EventIf(connected, "Device", id, Connected(connected.val))
        \o EventIf(rssi, "Device", id, RSSI(rssi.val))

\* The arm "org.bluez.GattCharacteristic1" of properties_changed_to_events.
CharacteristicEvents(object_path, changed_properties) ==
    LET id    == CharacteristicId(object_path)
        value == prop_cast(changed_properties, "Value", "bytes")
    IN  EventIf(value, "Characteristic", id, Value(value.val))

\* BluetoothEvent::properties_changed_to_events
properties_changed_to_events(object_path, properties_changed) ==
    LET changed_properties == properties_changed.changed_properties IN
    CASE properties_changed.interface_name = "org.bluez.Adapter1" ->
             AdapterEvents(object_path, changed_properties)
      [] properties_changed.interface_name = "org.bluez.Device1" ->
             DeviceEvents(object_path, changed_properties)
      [] properties_changed.interface_name = "org.bluez.GattCharacteristic1" ->
             CharacteristicEvents(object_path, changed_properties)
      [] OTHER -> <<>>

\* A translation that reports a device for any added interface.
interfaces_added_to_events_any(interfaces_added) ==
    IF DOMAIN interfaces_added.interfaces # {}
    THEN <<BluetoothEvent("Device", DeviceId(interfaces_added.object), Discovered)>>
    ELSE <<>>

\* BluetoothEvent::interfaces_added_to_events
interfaces_added_to_events(interfaces_added) ==
    IF "org.bluez.Device1" \in DOMAIN interfaces_added.interfaces
    THEN <<BluetoothEvent("Device", DeviceId(interfaces_added.object), Discovered)>>
    ELSE <<>>

\* BluetoothEvent::message_to_events
message_to_events(msg) ==
    LET properties_changed == from_message("PropertiesChanged", msg)
        interfaces_added   == from_message("InterfacesAdded", msg)
    IN
    IF is_some(properties_changed)
    THEN properties_changed_to_events(msg.path, properties_changed.val)
    ELSE IF is_some(interfaces_added)
    THEN interfaces_added_to_events(interfaces_added.val)
    ELSE <<>>

----------------------------------------------------------------------------
(* The messages the model's bus carries (SpecEvents).                      *)

Senders == {"org.bluez", "org.other"}

ObjectPaths == {"/", "/org/bluez/hci0/dev_11"}

AddedObjects == {"/org/bluez/hci0/dev_11", "/org/bluez/hci0/dev_22"}

\* The header of a PropertiesChanged signal, of an InterfacesAdded signal, and
\* of a message that is neither.
Headers ==
    {[interface |-> PROPERTIES_INTERFACE, member |-> "PropertiesChanged"],
     [interface |-> OBJECT_MANAGER_INTERFACE, member |-> "InterfacesAdded"],
     [interface |-> PROPERTIES_INTERFACE, member |-> "Get"]}

BluezInterfaces ==
    {"org.bluez.Adapter1", "org.bluez.Device1", "org.bluez.GattCharacteristic1",
     "org.bluez.GattService1"}

PropertyNames == {"Powered", "Discovering", "Connected", "RSSI", "Value", "Alias"}

PropertyValues ==
    {Variant("bool", TRUE), Variant("bool", FALSE), Variant("i16", 42),
     Variant("bytes", <<1, 2, 3>>)}

\* changed_properties: up to MaxProps properties, each with any value.
ChangedProperties ==
    UNION {[names -> PropertyValues] :
           names \in {n \in SUBSET PropertyNames : Cardinality(n) <= MaxProps}}

\* interfaces: the interfaces added to an object, each with no properties.
AddedInterfaces ==
    {[i \in names |-> <<>>] :
        names \in SUBSET (BluezInterfaces \ {"org.bluez.GattService1"})}

Bodies ==
    {PropertiesPropertiesChanged(i, c) : i \in BluezInterfaces, c \in ChangedProperties}
    \cup {ObjectManagerInterfacesAdded(o, i) : o \in AddedObjects, i \in AddedInterfaces}
    \cup {[kind |-> "Other"]}

Messages ==
    {Message(t, s, q, h.interface, h.member, b) :
        t \in {"signal", "method_call"}, s \in Senders, q \in ObjectPaths,
        h \in Headers, b \in Bodies}

\* A message is on the bus; it has been neither matched nor translated.
InitEvents ==
    /\ devices = <<>>
    /\ updates = 0
    /\ last = None
    /\ input = <<>>
    /\ parsed = None
    /\ message \in {Some(m) : m \in Messages}
    /\ matched = None
    /\ events = None

\* The match rule of BluetoothEvent::match_rule is tried on the message.
MatchMessage ==
    /\ matched = None
    /\ matched' = Some(Matches(match_rule, message.val))
    /\ UNCHANGED <<devices, updates, last, input, parsed, message, events>>

\* BluetoothEvent::message_to_events on the message.
MessageToEvents ==
    /\ events = None
    /\ events' = Some(message_to_events(message.val))
    /\ UNCHANGED <<devices, updates, last, input, parsed, message, matched>>

NextEvents == MatchMessage \/ MessageToEvents

SpecEvents == InitEvents /\ [][NextEvents]_vars

----------------------------------------------------------------------------
(* The match rule and the translation of messages (SpecEvents).            *)

\* msg is a PropertiesChanged signal with the body of one.
IsPropertiesChanged(msg) ==
    /\ msg.msg_type = "signal"
    /\ msg.interface = "org.freedesktop.DBus.Properties"
    /\ msg.member = "PropertiesChanged"
    /\ msg.body.kind = "PropertiesChanged"

\* msg is an InterfacesAdded signal with the body of one.
IsInterfacesAdded(msg) ==
    /\ msg.msg_type = "signal"
    /\ msg.interface = "org.freedesktop.DBus.ObjectManager"
    /\ msg.member = "InterfacesAdded"
    /\ msg.body.kind = "InterfacesAdded"

\* C12: every message that message_to_events turns into at least one event is
\* matched by match_rule. It is stated here for the signals org.bluez sends,
\* the ones the rule is written for, a PropertiesChanged signal or an
\* InterfacesAdded signal carrying org.bluez.Device1; the rule misses the
\* second.
C12_AllEventsMatched ==
    (/\ matched # None
     /\ events # None
     /\ message.val.msg_type = "signal"
     /\ message.val.sender = "org.bluez"
     /\ events.val # <<>>)
        => matched.val

C12_Witness ==
    /\ IsInterfacesAdded(message.val)
    /\ message.val.sender = "org.bluez"
    /\ message.val.path = "/"
    /\ message.val.body.object = "/org/bluez/hci0/dev_11"
    /\ DOMAIN message.val.body.interfaces = {"org.bluez.Device1"}
    /\ events = Some(<<BluetoothEvent("Device",
                                      DeviceId("/org/bluez/hci0/dev_11"),
                                      Discovered)>>)
    /\ matched = Some(FALSE)

\* The properties an interface's changes are read for, in the order of their
\* events: the property, the type of its value, the event and the field of
\* the event that carries the value.
Recognised(interface_name) ==
    CASE interface_name = "org.bluez.Adapter1" ->
             <<[name |-> "Powered", type |-> "bool", of |-> "Adapter",
                field |-> "powered"],
               [name |-> "Discovering", type |-> "bool", of |-> "Adapter",
                field |-> "discovering"]>>
      [] interface_name = "org.bluez.Device1" ->
             <<[name |-> "Connected", type |-> "bool", of |-> "Device",
                field |-> "connected"],
               [name |-> "RSSI", type |-> "i16", of |-> "Device",
                field |-> "rssi"]>>
      [] interface_name = "org.bluez.GattCharacteristic1" ->
             <<[name |-> "Value", type |-> "bytes", of |-> "Characteristic",
                field |-> "value"]>>
      [] OTHER -> <<>>

\* Property p is among the changed properties c, with a value of any type.
Present(c, p) == p.name \in DOMAIN c

\* Property p is among the changed properties c with a value of its type.
PresentTyped(c, p) == p.name \in DOMAIN c /\ c[p.name].type = p.type

\* evs holds one event for each recognised property of the message's
\* interface that is present (with a value of its type, if typed), in the
\* order of Recognised, each with the value the message gives the property
\* and an id of the message's path.
OneEventPerProperty(msg, evs, typed) ==
    LET c   == msg.body.changed_properties
        sel == SelectSeq(Recognised(msg.body.interface_name),
                         LAMBDA p : IF typed THEN PresentTyped(c, p)
                                             ELSE Present(c, p))
    IN  /\ Len(evs) = Len(sel)
        /\ \A i \in 1..Len(sel) :
               /\ evs[i].kind = sel[i].of
               /\ evs[i].id = [object_path |-> msg.path]
               /\ evs[i].event.kind = sel[i].name
               /\ evs[i].event[sel[i].field] = c[sel[i].name][c[sel[i].name].type]

\* C13 as the claim states it: for a PropertiesChanged message the events are
\* one per recognised property of the message's interface present in
\* changed_properties, in the order of the interface's properties, each with
\* the message's value and path.
C13_OneEventPerPresentProperty ==
    (events # None /\ IsPropertiesChanged(message.val))
        => OneEventPerProperty(message.val, events.val, FALSE)

\* C13: for a PropertiesChanged message the events are one per recognised
\* property of the message's interface present in changed_properties with a
\* value of the property's type (bool for Powered, Discovering and Connected,
\* i16 for RSSI, bytes for Value), in the order Powered, Discovering and
\* Connected, RSSI, each with the message's value and an id of the message's
\* path; a property of another interface and any other interface give none.
C13_OneEventPerTypedProperty ==
    (events # None /\ IsPropertiesChanged(message.val))
        => OneEventPerProperty(message.val, events.val, TRUE)

C13_Witness ==
    /\ IsPropertiesChanged(message.val)
    /\ message.val.path = "/org/bluez/hci0/dev_11"
    /\ message.val.body.interface_name = "org.bluez.Device1"
    /\ DOMAIN message.val.body.changed_properties = {"Connected", "RSSI"}
    /\ message.val.body.changed_properties["Connected"].type = "bool"
    /\ message.val.body.changed_properties["RSSI"].type = "i16"
    /\ events # None
    /\ Len(events.val) = 2
    /\ events.val[1].event = [kind |-> "Connected", connected |-> TRUE]
    /\ events.val[2].event = [kind |-> "RSSI", rssi |-> 42]

\* C14: for an InterfacesAdded message the events are one Device Discovered
\* event when org.bluez.Device1 is among the added interfaces, its id the
\* object the signal says was added and not the path of the message, and no
\* event when org.bluez.Device1 is not among them.
C14_DiscoveredFromAddedObject ==
    (events # None /\ IsInterfacesAdded(message.val))
        => IF "org.bluez.Device1" \in DOMAIN message.val.body.interfaces
           THEN events.val
                    = <<[kind |-> "Device",
                         id |-> [object_path |-> message.val.body.object],
                         event |-> [kind |-> "Discovered"]]>>
           ELSE events.val = <<>>

C14_Witness ==
    /\ IsInterfacesAdded(message.val)
    /\ message.val.path = "/"
    /\ message.val.body.object = "/org/bluez/hci0/dev_11"
    /\ "org.bluez.Device1" \in DOMAIN message.val.body.interfaces
    /\ "org.bluez.Adapter1" \in DOMAIN message.val.body.interfaces
    /\ events # None
    /\ Len(events.val) = 1
    /\ events.val[1].id.object_path = "/org/bluez/hci0/dev_11"

====
